---- MODULE Spec2Model ----
(***************************************************************************)
(* Datagran memory plugin: the remote client (src/src/datagranClient.ts),  *)
(* the input validators and the configuration resolver (schemas.ts,        *)
(* printed in src/skills/datagran-memory/SKILL.md) and the three tools     *)
(* (tools.ts, src/unnamed/part_000).                                       *)
(*                                                                         *)
(* DatagranClient.request and the execute functions of the tools are       *)
(* async.  Their atomic steps are the stretches of code between two        *)
(* awaits (await fetch, await response.text(), await sleep, await of a     *)
(* client call); each is one action below.                                 *)
(***************************************************************************)
EXTENDS Integers, Sequences, FiniteSets, TLC

\* Largest http.retries explored (the schema admits 0..5).
MaxRetries == 2

\* ------------------------------------------------------------------ values

\* Invocations of request() the host can make in one run.
Calls == {"c1", "c2"}

\* createMemoryConnection / ingestText / queryBrain.
Ops == {"connect", "ingest", "query"}

Path(o) ==
  CASE o = "connect" -> "/api/connections/memory"
    [] o = "ingest"  -> "/api/context/compile"
    [] o = "query"   -> "/api/context/brain"

\* HTTP statuses the remote answers with (valid status codes are 100..599;
\* fetch never surfaces 1xx).
Statuses == {200, 299, 300, 404, 408, 429, 499, 500, 503}

\* Response body texts the remote sends.
Texts == {"", "{\"error\":\"No brain found\"}", "{\"success\":true}", "<html>Bad Gateway</html>"}

\* What a rejected fetch() throws: TypeError (connection error), AbortError
\* (controller.abort() from the attempt's timer), or any other Error (a
\* fetch installed by the host that throws something else).
FetchErrors == {"TypeError", "AbortError", "Error"}

\* What a rejected response.text() throws: the connection broke while the
\* body was streamed.  The timer is cleared by then, so never AbortError.
BodyErrors == {"TypeError"}

Undefined == "undefined"

\* JSON values: an object (its canonical text, and its error / message
\* fields), or a string.
JsObject(json, err, msg) == [type |-> "object", json |-> json, error |-> err, message |-> msg, str |-> ""]
JsString(s) == [type |-> "string", json |-> "", error |-> Undefined, message |-> Undefined, str |-> s]

\* JSON.parse: the texts that are valid JSON, and their values.  A field
\* that is no string is undefined here: typeof tells it from a string, as
\* it tells a missing field.
IsJson(text) ==
  text \in {"{\"error\":\"No brain found\"}", "{\"success\":true}", "{\"connection_id\":\"conn_1\"}",
            "{\"error\":\"No brain found\",\"message\":\"Try later\"}", "{\"message\":\"Try later\"}",
            "{\"error\":\"\",\"message\":\"Try later\"}", "{\"error\":\"   \",\"message\":\"Try later\"}",
            "{\"error\":\" No brain found \"}", "{\"error\":{\"code\":7},\"message\":\"Try later\"}"}

JsonParse(text) ==
  CASE text = "{\"error\":\"No brain found\"}" -> JsObject(text, "No brain found", Undefined)
    [] text = "{\"success\":true}" -> JsObject(text, Undefined, Undefined)
    [] text = "{\"connection_id\":\"conn_1\"}" -> JsObject(text, Undefined, Undefined)
    [] text = "{\"error\":\"No brain found\",\"message\":\"Try later\"}" -> JsObject(text, "No brain found", "Try later")
    [] text = "{\"message\":\"Try later\"}" -> JsObject(text, Undefined, "Try later")
    [] text = "{\"error\":\"\",\"message\":\"Try later\"}" -> JsObject(text, "", "Try later")
    [] text = "{\"error\":\"   \",\"message\":\"Try later\"}" -> JsObject(text, "   ", "Try later")
    [] text = "{\"error\":\" No brain found \"}" -> JsObject(text, " No brain found ", Undefined)
    [] text = "{\"error\":{\"code\":7},\"message\":\"Try later\"}" -> JsObject(text, Undefined, "Try later")

\* parseResponseBody whose catch gives {} instead of the text (fault variant).
parseResponseBodyDropsText(text) ==
  IF text = "" THEN JsObject("{}", Undefined, Undefined)
  ELSE IF IsJson(text) THEN JsonParse(text)
  ELSE JsObject("{}", Undefined, Undefined)

\* DatagranClient.parseResponseBody
parseResponseBody(text) ==
  IF text = "" THEN JsObject("{}", Undefined, Undefined)
  ELSE IF IsJson(text) THEN JsonParse(text)
  ELSE JsString(text)

\* response.ok with the upper end of the range off by one (fault variant).
ResponseOkNarrow(status) == 200 <= status /\ status < 299

\* response.ok
ResponseOk(status) == 200 <= status /\ status <= 299

\* isRetryableStatus without 429 (fault variant).
isRetryableStatusNo429(status) == status = 408 \/ status >= 500

\* isRetryableStatus that retries every 4xx too (fault variant).
isRetryableStatusWide(status) == status >= 400

\* isRetryableStatus
isRetryableStatus(status) == status = 408 \/ status = 429 \/ status >= 500

\* The retryable test of the catch branch, without TypeError (fault variant).
isRetryableErrorAbortOnly(kind) == kind = "AbortError"

\* isAbortError(error) || error instanceof TypeError
isRetryableError(kind) == kind = "AbortError" \/ kind = "TypeError"

\* String.prototype.trim on the strings modelled: the blank string and the
\* padded string lose their blanks, every other string has none to lose.
Trim(str) ==
  CASE str = "   " -> ""
    [] str = " No brain found " -> "No brain found"
    [] OTHER -> str

\* asNonEmptyString on a field of the parsed body: the trimmed string when
\* something is left of it, else null.
asNonEmptyString(v) == IF v # Undefined /\ Trim(v) # "" THEN Trim(v) ELSE Undefined

Fallback(status) == [kind |-> "fallback", text |-> "Datagran request failed with HTTP", status |-> status]
Message(s) == [kind |-> "text", text |-> s, status |-> 0]

\* extractErrorMessage that looks at message before error (fault variant).
extractErrorMessageMessageFirst(body, status) ==
  IF body.type = "object" /\ asNonEmptyString(body.message) # Undefined THEN Message(asNonEmptyString(body.message))
  ELSE IF body.type = "object" /\ asNonEmptyString(body.error) # Undefined THEN Message(asNonEmptyString(body.error))
  ELSE IF body.type = "string" /\ Trim(body.str) # "" THEN Message(Trim(body.str))
  ELSE Fallback(status)

\* extractErrorMessage
extractErrorMessage(body, status) ==
  IF body.type = "object" /\ asNonEmptyString(body.error) # Undefined THEN Message(asNonEmptyString(body.error))
  ELSE IF body.type = "object" /\ asNonEmptyString(body.message) # Undefined THEN Message(asNonEmptyString(body.message))
  ELSE IF body.type = "string" /\ Trim(body.str) # "" THEN Message(Trim(body.str))
  ELSE Fallback(status)

\* Errors.
Null == [name |-> "null"]
DatagranApiError(message, status, body, retryable) ==
  [name |-> "DatagranApiError", message |-> message, status |-> status, body |-> body, retryable |-> retryable]
ThrownError(kind) == [name |-> kind]
GenericError == [name |-> "Error", message |-> "Datagran request failed after retries"]

\* The delay without its cap of 2000 ms (fault variant).
backoffMsUncapped(n) == 250 * 2^n

\* backoffMs: Math.min(2000, 250 * 2 ** attempt)
backoffMs(n) == IF 250 * (2 ^ n) < 2000 THEN 250 * (2 ^ n) ELSE 2000

\* The throw test that gives up one attempt early (fault variant).
ShouldThrowEarly(retryable, n, r) == ~retryable \/ n + 1 >= r

\* !retryable || attempt >= this.retries
ShouldThrow(retryable, n, r) == ~retryable \/ n >= r

\* ------------------------------------------------------------------ state

\* ---------------------------------------------------------------- requests

\* JavaScript values handed to the schemas: a string (its text and its
\* length), a number (in thousandths, so that 0.2 is 200), an object or
\* array (by a label), null, or undefined (the key is missing).
Absent == [t |-> "undefined", s |-> "", n |-> 0]
Str(s, len) == [t |-> "string", s |-> s, n |-> len]
Num(thousandths) == [t |-> "number", s |-> "", n |-> thousandths]
Obj(label) == [t |-> "object", s |-> label, n |-> 0]
Arr(label) == [t |-> "array", s |-> label, n |-> 0]
JsNull == [t |-> "null", s |-> "", n |-> 0]

\* The keys of the three input schemas.
CamelKeys == {"endUserExternalId", "connectionId", "email", "name", "text", "type", "ref", "metadata",
              "question", "mindState", "providers", "include", "maxTokens", "temperature"}

\* JavaScript truthiness of a value.
Truthy(v) ==
  CASE v.t = "undefined" -> FALSE
    [] v.t = "null" -> FALSE
    [] v.t = "string" -> v.n > 0
    [] v.t = "number" -> v.n # 0
    [] OTHER -> TRUE

\* The keys of the JSON bodies (end_user.external_id and end_user.email are
\* the two keys of the end_user object), and the field of the request each
\* one is taken from.
BodyKeys(kind) ==
  CASE kind = "connect" -> {"end_user.external_id", "end_user.email", "metadata"}
    [] kind = "ingest" -> {"name", "text", "type", "connection_id", "end_user_external_id", "ref", "metadata"}
    [] kind = "query" -> {"question", "connection_id", "end_user_external_id", "mind_state", "providers",
                          "include", "max_tokens", "temperature"}

FieldOf(key) ==
  CASE key = "end_user.external_id" -> "endUserExternalId"
    [] key = "end_user.email" -> "email"
    [] key = "connection_id" -> "connectionId"
    [] key = "end_user_external_id" -> "endUserExternalId"
    [] key = "mind_state" -> "mindState"
    [] key = "max_tokens" -> "maxTokens"
    [] OTHER -> key

\* The keys written without a test (their value is dropped by JSON.stringify
\* when it is undefined), and the keys written when typeof is 'number'.
PlainKeys == {"end_user.external_id", "name", "text", "type", "question"}
NumberKeys == {"max_tokens", "temperature"}

\* Whether the object literal of the body gets the key, and JSON.stringify
\* keeps it.
InBody(key, v) ==
  IF key \in PlainKeys THEN v.t # "undefined"
  ELSE IF key \in NumberKeys THEN v.t = "number"
  ELSE Truthy(v)

\* JSON.stringify(opts.body) of createMemoryConnection / ingestText /
\* queryBrain: the keys sent, each with the value of its field.
Body(kind, input) ==
  [key \in {k \in BodyKeys(kind) : InBody(k, input[FieldOf(k)])} |-> input[FieldOf(key)]]

NoBody == [key \in {} |-> Absent]

\* The requests, the baseUrl and the apiKey of the repository's client tests.
TestRequest(o) ==
  [k \in CamelKeys |->
     CASE o = "connect" /\ k = "endUserExternalId" -> Str("external_1", 10)
       [] o = "connect" /\ k = "email" -> Str("dev@datagran.com", 16)
       [] o = "ingest" /\ k = "connectionId" -> Str("11111111-1111-4111-8111-111111111111", 36)
       [] o = "ingest" /\ k = "name" -> Str("KB", 2)
       [] o = "ingest" /\ k = "text" -> Str("x*120", 120)
       [] o = "ingest" /\ k = "type" -> Str("raw_text", 8)
       [] o = "ingest" /\ k = "ref" -> Str("doc-1", 5)
       [] o = "ingest" /\ k = "metadata" -> Obj("{source:test}")
       [] o = "query" /\ k = "question" -> Str("What do you know?", 17)
       [] o = "query" /\ k = "endUserExternalId" -> Str("external_2", 10)
       [] o = "query" /\ k = "mindState" -> Str("auto", 4)
       [] o = "query" /\ k = "maxTokens" -> Num(300000)
       [] o = "query" /\ k = "temperature" -> Num(200)
       [] OTHER -> Absent]

TestBaseUrl == <<"https", "://", "api.datagran.com">>
TestApiKey == "sk_live_abc123"

\* A call of fetch() without the x-api-key header (fault variant).
FetchCallNoKey(url, key, b) ==
  [method |-> "POST", url |-> url, contentType |-> "application/json", xApiKey |-> "", body |-> b]

\* What fetch() is called with: the URL, the method, the two headers and
\* the body.
FetchCall(url, key, b) ==
  [method |-> "POST", url |-> url, contentType |-> "application/json", xApiKey |-> key, body |-> b]

VARIABLES
  retries,    \* this.retries
  baseUrl,    \* this.baseUrl
  apiKey,     \* this.apiKey
  remote,     \* the statuses and the body texts the remote answers with in this run
  callers,    \* the calls the host makes in this run
  body,       \* opts.body of each call
  requests,   \* the fetch() calls of each call, in order
  pc,         \* where each call is
  op,         \* the operation of each call
  attempt,    \* let attempt
  lastError,  \* let lastError
  timer,      \* the attempt's setTimeout is pending
  inflight,   \* HTTP exchanges of the call that have started and not ended
  sent,       \* fetch() calls made by the call
  log,        \* how each ended attempt of the call ended
  resp,       \* the status of the response whose body is being read
  result,     \* the payload returned to the caller
  raised,     \* the error thrown to the caller
  slept       \* the sleeps of the call, in order (ms)

clientVars == <<retries, baseUrl, apiKey, remote, callers, body, requests, pc, op, attempt, lastError, timer, inflight, sent, log, resp, result, raised, slept>>

NoPayload == [type |-> "none", json |-> "", error |-> Undefined, message |-> Undefined, str |-> ""]

Http(status, text) == [kind |-> "http", status |-> status, text |-> text]
Failed(kind) == [kind |-> kind, status |-> 0, text |-> ""]

\* No call has been made.
IdleCalls ==
  /\ body = [c \in Calls |-> NoBody]
  /\ requests = [c \in Calls |-> <<>>]
  /\ pc = [c \in Calls |-> "idle"]
  /\ op = [c \in Calls |-> "connect"]
  /\ attempt = [c \in Calls |-> 0]
  /\ lastError = [c \in Calls |-> Null]
  /\ timer = [c \in Calls |-> FALSE]
  /\ inflight = [c \in Calls |-> 0]
  /\ sent = [c \in Calls |-> 0]
  /\ log = [c \in Calls |-> <<>>]
  /\ resp = [c \in Calls |-> 0]
  /\ result = [c \in Calls |-> NoPayload]
  /\ raised = [c \in Calls |-> Null]
  /\ slept = [c \in Calls |-> <<>>]

InitClient ==
  /\ retries \in 0..MaxRetries
  /\ baseUrl = TestBaseUrl
  /\ apiKey = TestApiKey
  /\ remote = [statuses |-> Statuses, texts |-> Texts]
  /\ IdleCalls

\* ------------------------------------------------------------------ steps

\* The while loop with < for <= (fault variant).
LoopTopStrict(c, n, err) ==
  IF n < retries
  THEN /\ pc' = [pc EXCEPT ![c] = "fetching"]
       /\ timer' = [timer EXCEPT ![c] = TRUE]
       /\ inflight' = [inflight EXCEPT ![c] = @ + 1]
       /\ sent' = [sent EXCEPT ![c] = @ + 1]
       /\ requests' = [requests EXCEPT ![c] = Append(@, FetchCall(baseUrl' \o <<Path(op'[c])>>, apiKey', body'[c]))]
       /\ raised' = raised
  ELSE /\ pc' = [pc EXCEPT ![c] = "thrown"]
       /\ raised' = [raised EXCEPT ![c] = IF err = Null THEN GenericError ELSE err]
       /\ UNCHANGED <<timer, inflight, sent, requests>>

\* The top of the while loop: start the next attempt (setTimeout, fetch), or
\* leave the loop and throw (line 207).
LoopTop(c, n, err) ==
  IF n <= retries
  THEN /\ pc' = [pc EXCEPT ![c] = "fetching"]
       /\ timer' = [timer EXCEPT ![c] = TRUE]
       /\ inflight' = [inflight EXCEPT ![c] = @ + 1]
       /\ sent' = [sent EXCEPT ![c] = @ + 1]
       /\ requests' = [requests EXCEPT ![c] = Append(@, FetchCall(baseUrl' \o <<Path(op'[c])>>, apiKey', body'[c]))]
       /\ raised' = raised
  ELSE /\ pc' = [pc EXCEPT ![c] = "thrown"]
       /\ raised' = [raised EXCEPT ![c] = IF err = Null THEN GenericError ELSE err]
       /\ UNCHANGED <<timer, inflight, sent, requests>>

\* A failed attempt that throws the error recorded earlier, when there is
\* one, instead of the error of this attempt (fault variant).
FailAttemptStale(c, err, retryable) ==
  IF ShouldThrow(retryable, attempt[c], retries)
  THEN /\ pc' = [pc EXCEPT ![c] = "thrown"]
       /\ raised' = [raised EXCEPT ![c] = IF lastError[c] = Null THEN err ELSE lastError[c]]
       /\ UNCHANGED <<lastError, slept>>
  ELSE /\ pc' = [pc EXCEPT ![c] = "sleeping"]
       /\ lastError' = [lastError EXCEPT ![c] = err]
       /\ slept' = [slept EXCEPT ![c] = Append(@, backoffMs(attempt[c]))]
       /\ UNCHANGED raised

\* A failed attempt: throw to the caller, or record the error and sleep.
FailAttempt(c, err, retryable) ==
  IF ShouldThrow(retryable, attempt[c], retries)
  THEN /\ pc' = [pc EXCEPT ![c] = "thrown"]
       /\ raised' = [raised EXCEPT ![c] = err]
       /\ UNCHANGED <<lastError, slept>>
  ELSE /\ pc' = [pc EXCEPT ![c] = "sleeping"]
       /\ lastError' = [lastError EXCEPT ![c] = err]
       /\ slept' = [slept EXCEPT ![c] = Append(@, backoffMs(attempt[c]))]
       /\ UNCHANGED raised

\* request() starting from the attempt another call has reached, as if
\* attempt were a field of the client (fault variant).
requestSharedAttempt(c, o, b) ==
  LET d == CHOOSE x \in Calls : x # c
  IN /\ pc[c] = "idle"
     /\ op' = [op EXCEPT ![c] = o]
     /\ body' = [body EXCEPT ![c] = b]
     /\ attempt' = [attempt EXCEPT ![c] = attempt[d]]
     /\ lastError' = [lastError EXCEPT ![c] = Null]
     /\ LoopTop(c, attempt[d], Null)
     /\ UNCHANGED <<log, resp, result, slept>>

\* request(opts) is entered with the path of operation o and the body b:
\* attempt and lastError are initialised and the first attempt starts.
request(c, o, b) ==
  /\ pc[c] = "idle"
  /\ op' = [op EXCEPT ![c] = o]
  /\ body' = [body EXCEPT ![c] = b]
  /\ attempt' = [attempt EXCEPT ![c] = 0]
  /\ lastError' = [lastError EXCEPT ![c] = Null]
  /\ LoopTop(c, 0, Null)
  /\ UNCHANGED <<log, resp, result, slept>>

\* The host calls createMemoryConnection / ingestText / queryBrain of the
\* client it holds.
Invoke(c) ==
  /\ c \in callers
  /\ UNCHANGED <<retries, baseUrl, apiKey, remote, callers>>
  /\ \E o \in Ops : request(c, o, Body(o, TestRequest(o)))

\* fetch() resolves with the response's status line and headers:
\* clearTimeout, then response.text() is awaited.
FetchResolves(c) ==
  /\ pc[c] = "fetching"
  /\ \E s \in remote.statuses : resp' = [resp EXCEPT ![c] = s]
  /\ timer' = [timer EXCEPT ![c] = FALSE]
  /\ pc' = [pc EXCEPT ![c] = "reading"]
  /\ UNCHANGED <<retries, baseUrl, apiKey, remote, callers, body, requests>>
  /\ UNCHANGED <<op, attempt, lastError, inflight, sent, log, result, raised, slept>>

\* The catch branch for an error that is no DatagranApiError.
Catch(c, kind) ==
  /\ timer' = [timer EXCEPT ![c] = FALSE]
  /\ inflight' = [inflight EXCEPT ![c] = @ - 1]
  /\ log' = [log EXCEPT ![c] = Append(@, Failed(kind))]
  /\ FailAttempt(c, ThrownError(kind), isRetryableError(kind))
  /\ UNCHANGED <<retries, baseUrl, apiKey, remote, callers, body, requests>>
  /\ UNCHANGED <<op, attempt, sent, resp, result>>

\* fetch() rejects: a connection error, or another error of the fetch in use.
FetchRejects(c) ==
  /\ pc[c] = "fetching"
  /\ \E kind \in FetchErrors \ {"AbortError"} : Catch(c, kind)

\* The attempt's timer fires first: controller.abort() makes the pending
\* fetch() reject with an AbortError.
TimerFires(c) ==
  /\ pc[c] = "fetching"
  /\ timer[c]
  /\ Catch(c, "AbortError")

\* response.text() rejects.
BodyRejects(c) ==
  /\ pc[c] = "reading"
  /\ \E kind \in BodyErrors : Catch(c, kind)

\* response.text() resolves: parse, then return the payload or build the
\* DatagranApiError and throw or retry.
BodyResolves(c) ==
  /\ pc[c] = "reading"
  /\ \E text \in remote.texts :
       LET status == resp[c]
           payload == parseResponseBody(text)
           retryable == isRetryableStatus(status)
           apiError == DatagranApiError(extractErrorMessage(payload, status), status, payload, retryable)
       IN /\ log' = [log EXCEPT ![c] = Append(@, Http(status, text))]
          /\ inflight' = [inflight EXCEPT ![c] = @ - 1]
          /\ IF ResponseOk(status)
             THEN /\ pc' = [pc EXCEPT ![c] = "returned"]
                  /\ result' = [result EXCEPT ![c] = payload]
                  /\ UNCHANGED <<lastError, raised, slept>>
             ELSE /\ FailAttempt(c, apiError, retryable)
                  /\ UNCHANGED result
  /\ UNCHANGED <<retries, baseUrl, apiKey, remote, callers, body, requests>>
  /\ UNCHANGED <<op, attempt, timer, sent, resp>>

\* sleep() resolves: attempt += 1 and back to the top of the loop.
SleepResolves(c) ==
  /\ pc[c] = "sleeping"
  /\ attempt' = [attempt EXCEPT ![c] = @ + 1]
  /\ UNCHANGED <<retries, baseUrl, apiKey, remote, callers, body, op>>
  /\ LoopTop(c, attempt[c] + 1, lastError[c])
  /\ UNCHANGED <<lastError, log, resp, result, slept>>

NextClient ==
  \E c \in Calls :
    \/ Invoke(c)
    \/ FetchResolves(c)
    \/ FetchRejects(c)
    \/ TimerFires(c)
    \/ BodyRejects(c)
    \/ BodyResolves(c)
    \/ SleepResolves(c)

\* ------------------------------------------------------------ validators

\* The strings that match zod's uuid and email patterns.
IsUuid(v) == v.s \in {"11111111-1111-4111-8111-111111111111"}
IsEmail(v) == v.s \in {"dev@datagran.com"}

MIND_STATES == {"auto", "short_term", "mid_term", "long_term"}

SOURCE_TYPES == {"raw_text", "google_drive", "notion", "url", "facebook_ads", "facebook_leads",
                 "google_ads", "instagram", "linkedin_ads", "tiktok_ads", "salesforce", "hubspot",
                 "postgres_query", "api_response", "firecrawl"}

\* The snake_case spellings of the keys.
SnakeKeys == {"end_user_external_id", "connection_id", "mind_state", "max_tokens"}

SnakeOf(k) ==
  CASE k = "endUserExternalId" -> "end_user_external_id"
    [] k = "connectionId" -> "connection_id"
    [] k = "mindState" -> "mind_state"
    [] k = "maxTokens" -> "max_tokens"
    [] OTHER -> k

\* A zod issue: the path of the field ("" is the input as a whole), the
\* code, and whether it makes the field INVALID (aborted) or only dirty.
Issue(path, code) == [path |-> path, code |-> code, fatal |-> code \in {"invalid_type", "invalid_enum_value"}]
Dirty(path, code) == [path |-> path, code |-> code, fatal |-> FALSE]

\* z.string() with .min(lo), .max(hi) (hi < 0: none), a format
\* ("uuid", "email" or "any") and .optional().
ZString(key, v, optional, lo, hi, fmt) ==
  IF v = Absent THEN (IF optional THEN {} ELSE {Issue(key, "invalid_type")})
  ELSE IF v.t # "string" THEN {Issue(key, "invalid_type")}
  ELSE (IF v.n < lo THEN {Issue(key, "too_small")} ELSE {})
       \cup (IF hi >= 0 /\ v.n > hi THEN {Issue(key, "too_big")} ELSE {})
       \cup (IF (fmt = "uuid" /\ ~IsUuid(v)) \/ (fmt = "email" /\ ~IsEmail(v))
             THEN {Issue(key, "invalid_string")} ELSE {})

\* z.enum(values), .optional() or with a .default().
ZEnum(key, v, values) ==
  IF v = Absent THEN {}
  ELSE IF v.t # "string" THEN {Issue(key, "invalid_type")}
  ELSE IF v.s \notin values THEN {Issue(key, "invalid_enum_value")}
  ELSE {}

\* z.number() with .int() (when int), .min(lo), .max(hi), .optional();
\* lo and hi are in thousandths.
ZNumber(key, v, int, lo, hi) ==
  IF v = Absent THEN {}
  ELSE IF v.t # "number" THEN {Issue(key, "invalid_type")}
  ELSE (IF int /\ v.n % 1000 # 0 THEN {Dirty(key, "invalid_type")} ELSE {})
       \cup (IF v.n < lo THEN {Issue(key, "too_small")} ELSE {})
       \cup (IF v.n > hi THEN {Issue(key, "too_big")} ELSE {})

\* z.record(z.unknown()).optional(), QueryIncludeSchema.optional()
ZObject(key, v) ==
  IF v = Absent \/ v.t = "object" THEN {} ELSE {Issue(key, "invalid_type")}

\* z.array(z.string().min(1)).optional()
ZArray(key, v) ==
  IF v = Absent \/ v.t = "array" THEN {} ELSE {Issue(key, "invalid_type")}

SchemaKeys(kind) ==
  CASE kind = "connect" -> {"endUserExternalId", "email", "metadata"}
    [] kind = "ingest" -> {"connectionId", "endUserExternalId", "email", "name", "text", "type", "ref", "metadata"}
    [] kind = "query" -> {"question", "connectionId", "endUserExternalId", "mindState", "providers",
                          "include", "maxTokens", "temperature"}

\* ConnectInputSchema: the issues of the fields.
ConnectInputSchema(in) ==
  ZString("endUserExternalId", in["endUserExternalId"], FALSE, 1, -1, "any")
  \cup ZString("email", in["email"], TRUE, 0, -1, "email")
  \cup ZObject("metadata", in["metadata"])

\* IngestInputSchema before .refine: the issues of the fields.
IngestInputSchema(in) ==
  ZString("connectionId", in["connectionId"], TRUE, 0, -1, "uuid")
  \cup ZString("endUserExternalId", in["endUserExternalId"], TRUE, 1, -1, "any")
  \cup ZString("email", in["email"], TRUE, 0, -1, "email")
  \cup ZString("name", in["name"], FALSE, 1, 255, "any")
  \cup ZString("text", in["text"], FALSE, 100, 10000000, "any")
  \cup ZEnum("type", in["type"], SOURCE_TYPES)
  \cup ZString("ref", in["ref"], TRUE, 0, -1, "any")
  \cup ZObject("metadata", in["metadata"])

\* QueryInputSchema before .refine: the issues of the fields.
QueryInputSchema(in) ==
  ZString("question", in["question"], FALSE, 1, 100000, "any")
  \cup ZString("connectionId", in["connectionId"], TRUE, 0, -1, "uuid")
  \cup ZString("endUserExternalId", in["endUserExternalId"], TRUE, 1, -1, "any")
  \cup ZEnum("mindState", in["mindState"], MIND_STATES)
  \cup ZArray("providers", in["providers"])
  \cup ZObject("include", in["include"])
  \cup ZNumber("maxTokens", in["maxTokens"], TRUE, 1000, 4096000)
  \cup ZNumber("temperature", in["temperature"], FALSE, 0, 2000)

FieldIssues(kind, in) ==
  CASE kind = "connect" -> ConnectInputSchema(in)
    [] kind = "ingest" -> IngestInputSchema(in)
    [] kind = "query" -> QueryInputSchema(in)

\* The value a z.object gives: the keys of the schema only (unknown keys are
\* stripped), with the default of type filled in.
Stripped(kind, in) ==
  [k \in CamelKeys |->
     IF k \notin SchemaKeys(kind) THEN Absent
     ELSE IF kind = "ingest" /\ k = "type" /\ in[k] = Absent THEN Str("raw_text", 8)
     ELSE in[k]]

\* A cross-field rule that reports each missing field on its own (fault variant).
RefinePerField(kind, value) ==
  IF kind = "connect" THEN {}
  ELSE (IF Truthy(value["connectionId"]) \/ Truthy(value["endUserExternalId"]) THEN {}
        ELSE {Issue("connectionId", "custom"), Issue("endUserExternalId", "custom")})

\* .refine((v) => Boolean(v.connectionId || v.endUserExternalId)) of the
\* ingest and query schemas.
Refine(kind, value) ==
  IF kind = "connect" THEN {}
  ELSE IF Truthy(value["connectionId"]) \/ Truthy(value["endUserExternalId"]) THEN {}
  ELSE {Issue("", "custom")}

NoValue == [k \in CamelKeys |-> Absent]

\* Schema.parse(input): the fields are checked; the refinement runs unless a
\* field aborted; the value is returned when there is no issue, else a
\* ZodError carrying the issues is thrown.
SchemaParse(kind, in) ==
  LET fields == FieldIssues(kind, in)
      aborted == \E i \in fields : i.fatal
      value == Stripped(kind, in)
      issues == fields \cup (IF aborted THEN {} ELSE Refine(kind, value))
  IN [ok |-> issues = {}, issues |-> issues, value |-> IF issues = {} THEN value ELSE NoValue]

VARIABLES
  vpc,      \* "input": the tool was handed params; "parsed": the parse ran;
            \* "built": the client built the body of the request
  vKind,    \* which of parseConnectInput / parseIngestInput / parseQueryInput
  vInput,   \* the params
  vResult,  \* what the parse gave
  vBody     \* the body built from the validated request

validatorVars == <<vpc, vKind, vInput, vResult, vBody>>

NoResult == [ok |-> FALSE, issues |-> {}, value |-> NoValue]

A == {Absent}

\* The params explored for each tool.
ConnectInputs ==
  [endUserExternalId: {Absent, Str("", 0), Str("external_1", 10)},
   end_user_external_id: {Absent, Str("external_1", 10)},
   connectionId: A, connection_id: A,
   email: {Absent, Str("dev@datagran.com", 16), Str("dev", 3)},
   name: A, text: A, type: A, ref: A,
   metadata: {Absent, Obj("{source:test}"), JsNull},
   question: A, mindState: A, mind_state: A, providers: A, include: A,
   maxTokens: A, max_tokens: A, temperature: A]

IngestInputs ==
  [endUserExternalId: {Absent, Str("", 0), Str("external_1", 10)},
   end_user_external_id: {Absent, Str("external_1", 10)},
   connectionId: {Absent, Str("11111111-1111-4111-8111-111111111111", 36), Str("conn_1", 6)},
   connection_id: {Absent, Str("11111111-1111-4111-8111-111111111111", 36)},
   email: {Absent, Str("dev@datagran.com", 16)},
   name: {Absent, Str("Alias Test", 10), Str("n*256", 256)},
   text: {Str("x*99", 99), Str("x*120", 120)},
   type: {Absent, Str("raw_text", 8), Str("notion", 6), Str("csv", 3)},
   ref: {Absent, Str("", 0), Str("doc-1", 5)},
   metadata: {Absent, Obj("{source:test}")},
   question: A, mindState: A, mind_state: A, providers: A, include: A,
   maxTokens: A, max_tokens: A, temperature: A]

QueryInputs ==
  [endUserExternalId: {Absent, Str("external_1", 10)},
   end_user_external_id: {Absent, Str("external_1", 10)},
   connectionId: {Absent, Str("11111111-1111-4111-8111-111111111111", 36), Str("conn_1", 6)},
   connection_id: {Absent, Str("11111111-1111-4111-8111-111111111111", 36)},
   email: A, name: A, text: A, type: A, ref: A, metadata: A,
   question: {Str("", 0), Str("What happened?", 14)},
   mindState: {Absent, Str("auto", 4), Str("deep", 4)},
   mind_state: {Absent, Str("auto", 4)},
   providers: {Absent, Arr("[facebook_ads]")},
   include: {Absent, Obj("{citations:true}")},
   maxTokens: {Absent, Num(321000), Num(0), Num(1500), Num(4097000)},
   max_tokens: {Absent, Num(321000)},
   temperature: {Absent, Num(200), Num(2500)}]

Inputs(kind) ==
  CASE kind = "connect" -> ConnectInputs
    [] kind = "ingest" -> IngestInputs
    [] kind = "query" -> QueryInputs

IdleValidator ==
  /\ vpc = "none"
  /\ vKind = "connect"
  /\ vInput = CHOOSE in \in ConnectInputs : \A k \in DOMAIN in : in[k] = Absent
  /\ vResult = NoResult
  /\ vBody = NoBody

InitValidate ==
  /\ vpc = "input"
  /\ vKind \in Ops
  /\ vInput \in Inputs(vKind)
  /\ vResult = NoResult
  /\ vBody = NoBody

Parse(kind) ==
  /\ vpc = "input"
  /\ vKind = kind
  /\ vpc' = "parsed"
  /\ vResult' = SchemaParse(kind, vInput)
  /\ UNCHANGED <<vKind, vInput, vBody>>

parseConnectInput == Parse("connect")

parseIngestInput == Parse("ingest")

parseQueryInput == Parse("query")

\* The client operation is called with the validated request and builds
\* the body it hands to request().
BuildBody(kind) ==
  /\ vpc = "parsed"
  /\ vKind = kind
  /\ vResult.ok
  /\ vpc' = "built"
  /\ vBody' = Body(kind, vResult.value)
  /\ UNCHANGED <<vKind, vInput, vResult>>

createMemoryConnection == BuildBody("connect")

ingestText == BuildBody("ingest")

queryBrain == BuildBody("query")

\* ------------------------------------------------------ configuration

\* Longest path explored in a baseUrl, in tokens.
MaxPathLen == 4

\* A URL string is the sequence of its pieces: the scheme, "://", the host,
\* and then the path as "/" and segment pieces ("https://host/sub/" is
\* <<"https", "://", "host", "/", "sub", "/">>).
Schemes == {"https", "http", "ftp", "foo"}
Hosts == {"host"}
PathTokens == {"/", "intelligence", "sub"}

Paths == {<<>>} \cup UNION {{p \in [1..k -> PathTokens] : p[1] = "/"} : k \in 1..MaxPathLen}

UrlStrings == {<<sc, "://", h>> \o p : sc \in Schemes, h \in Hosts, p \in Paths}

\* new URL(s) does not throw (what zod's .url() tests).
IsUrl(s) == Len(s) >= 3 /\ s[2] = "://"

\* The special schemes have a tuple origin; the origin of any other scheme
\* is opaque and serialises as "null".
SpecialSchemes == {"https", "http", "ftp", "ws", "wss"}

\* new URL(s): origin and pathname (the path of a special scheme is never empty).
UrlParse(s) ==
  LET rest == SubSeq(s, 4, Len(s))
  IN [origin |-> IF s[1] \in SpecialSchemes THEN <<s[1], "://", s[3]>> ELSE <<"null">>,
      pathname |-> IF rest = <<>> /\ s[1] \in SpecialSchemes THEN <<"/">> ELSE rest]

\* stripTrailingSlashes: url.replace(/\/+$/, '')
RECURSIVE stripTrailingSlashes(_)
stripTrailingSlashes(s) ==
  IF s # <<>> /\ s[Len(s)] = "/" THEN stripTrailingSlashes(SubSeq(s, 1, Len(s) - 1)) ELSE s

\* normalizeDatagranBaseUrl
normalizeDatagranBaseUrl(rawUrl) ==
  LET parsed == UrlParse(rawUrl)
      path == stripTrailingSlashes(parsed.pathname)
  IN IF path = <<>> \/ path = <<"/">> \/ path = <<"/", "intelligence">>
     THEN parsed.origin
     ELSE parsed.origin \o path

\* normalizedBaseUrl.startsWith('http://')
StartsWithHttp(s) == Len(s) >= 2 /\ s[1] = "http" /\ s[2] = "://"

\* Values of a configuration object.  A missing key is undefined.
UrlAbsent == [t |-> "undefined", url |-> <<>>]
UrlStr(tokens) == [t |-> "string", url |-> tokens]
BoolAbsent == "undefined"

\* A configuration object as the host writes it: baseUrl, apiKey, allowHttp,
\* defaults.maxTokens, http.timeoutMs and http.retries (defaults and http are
\* objects whose other keys are left to their defaults).
Cfg(url, key, allowHttp, maxTokens, timeoutMs, rt) ==
  [baseUrl |-> url, apiKey |-> key, allowHttp |-> allowHttp,
   maxTokens |-> maxTokens, timeoutMs |-> timeoutMs, retries |-> rt]

EmptyCfg == Cfg(UrlAbsent, Absent, BoolAbsent, Absent, Absent, Absent)

\* What the host hands over as api.config: an object with the keys of a
\* configuration of its own, a pluginConfig object and a
\* plugins.entries.<pluginId>.config object (each {} when missing), or a
\* value that is no object.
RawObject(own, pluginConfig, entries) ==
  [t |-> "object", own |-> own, pluginConfig |-> pluginConfig, entries |-> entries]
RawOther == [t |-> "string", own |-> EmptyCfg, pluginConfig |-> EmptyCfg, entries |-> EmptyCfg]

\* typeof x.baseUrl === 'string' || typeof x.apiKey === 'string'
LooksLikeConfig(cfg) == cfg.baseUrl.t = "string" \/ cfg.apiKey.t = "string"

\* extractScopedConfig that looks in plugins.entries before pluginConfig
\* (fault variant).
extractScopedConfigEntriesFirst(rawConfig) ==
  LET root == IF rawConfig.t = "object" THEN rawConfig.own ELSE EmptyCfg
      fromPluginConfig == IF rawConfig.t = "object" THEN rawConfig.pluginConfig ELSE EmptyCfg
      fromEntries == IF rawConfig.t = "object" THEN rawConfig.entries ELSE EmptyCfg
  IN IF LooksLikeConfig(root) THEN root
     ELSE IF fromEntries # EmptyCfg THEN fromEntries
     ELSE IF LooksLikeConfig(fromPluginConfig) THEN fromPluginConfig
     ELSE root

\* extractScopedConfig
extractScopedConfig(rawConfig) ==
  LET root == IF rawConfig.t = "object" THEN rawConfig.own ELSE EmptyCfg
      fromPluginConfig == IF rawConfig.t = "object" THEN rawConfig.pluginConfig ELSE EmptyCfg
      fromEntries == IF rawConfig.t = "object" THEN rawConfig.entries ELSE EmptyCfg
  IN IF LooksLikeConfig(root) THEN root
     ELSE IF LooksLikeConfig(fromPluginConfig) THEN fromPluginConfig
     ELSE IF fromEntries # EmptyCfg THEN fromEntries
     ELSE root

\* PluginConfigSchema: the issues of the fields.
PluginConfigSchema(cfg) ==
  (IF cfg.baseUrl.t # "string" THEN {Issue("baseUrl", "invalid_type")}
   ELSE IF ~IsUrl(cfg.baseUrl.url) THEN {Issue("baseUrl", "invalid_string")} ELSE {})
  \cup ZString("apiKey", cfg.apiKey, FALSE, 1, -1, "any")
  \cup ZNumber("defaults.maxTokens", cfg.maxTokens, TRUE, 1000, 4096000)
  \cup ZNumber("http.timeoutMs", cfg.timeoutMs, TRUE, 1000000, 120000000)
  \cup ZNumber("http.retries", cfg.retries, TRUE, 0, 5000)

\* The parsed configuration: the defaults filled in.
PluginConfigDefaults(cfg) ==
  [baseUrl |-> cfg.baseUrl.url,
   apiKey |-> cfg.apiKey.s,
   allowHttp |-> cfg.allowHttp = "true",
   mindState |-> "auto",
   maxTokens |-> IF cfg.maxTokens = Absent THEN 512 ELSE cfg.maxTokens.n \div 1000,
   temperature |-> 200,
   timeoutMs |-> IF cfg.timeoutMs = Absent THEN 30000 ELSE cfg.timeoutMs.n \div 1000,
   retries |-> IF cfg.retries = Absent THEN 2 ELSE cfg.retries.n \div 1000]

NoConfig ==
  [baseUrl |-> <<>>, apiKey |-> "", allowHttp |-> FALSE, mindState |-> "auto", maxTokens |-> 0,
   temperature |-> 0, timeoutMs |-> 0, retries |-> 0]

\* resolvePluginConfig: the configuration, or the error thrown (a ZodError
\* of the schema, or the Error of the insecure-URL test).
resolvePluginConfig(rawConfig) ==
  LET scopedConfig == extractScopedConfig(rawConfig)
      issues == PluginConfigSchema(scopedConfig)
      parsed == PluginConfigDefaults(scopedConfig)
      normalizedBaseUrl == stripTrailingSlashes(normalizeDatagranBaseUrl(parsed.baseUrl))
  IN IF issues # {} THEN [ok |-> FALSE, error |-> "ZodError", config |-> NoConfig]
     ELSE IF ~parsed.allowHttp /\ StartsWithHttp(normalizedBaseUrl)
     THEN [ok |-> FALSE, error |-> "Insecure baseUrl blocked", config |-> NoConfig]
     ELSE [ok |-> TRUE, error |-> "", config |-> [parsed EXCEPT !.baseUrl = normalizedBaseUrl]]

VARIABLES
  rpc,      \* "raw": a configuration was handed over; "resolved": resolve ran
  rRaw,     \* the rawConfig
  rResult   \* what resolvePluginConfig gave

resolverVars == <<rpc, rRaw, rResult>>

NoResolve == [ok |-> FALSE, error |-> "", config |-> NoConfig]

\* The configuration objects explored: every URL with every apiKey and
\* allowHttp, and one URL with every setting of the numbers.
GoodUrl == UrlStr(<<"https", "://", "host">>)
GoodKey == Str("sk_live_123456", 14)

Cfgs ==
  {Cfg(b, k, a, Absent, Absent, Absent) :
     b \in {UrlAbsent, UrlStr(<<"host">>)} \cup {UrlStr(u) : u \in UrlStrings},
     k \in {Absent, Str("", 0), GoodKey},
     a \in {BoolAbsent, "true", "false"}}
  \cup
  {Cfg(GoodUrl, GoodKey, BoolAbsent, m, t, r) :
     m \in {Absent, Num(256000)},
     t \in {Absent, Num(500000), Num(1000000)},
     r \in {Absent, Num(1000), Num(6000)}}

\* The rawConfig values explored: a configuration object at one of the three
\* places the plugin looks in, or a value that is no object.
RawConfigs ==
  {RawObject(cfg, EmptyCfg, EmptyCfg) : cfg \in Cfgs}
  \cup {RawObject(EmptyCfg, cfg, EmptyCfg) : cfg \in Cfgs}
  \cup {RawObject(EmptyCfg, EmptyCfg, cfg) : cfg \in Cfgs}
  \cup {RawOther}

\* The objects found at one of the three places: none, three complete
\* configurations told apart by their apiKey, an apiKey alone, an apiKey
\* that is null, a baseUrl that is a number, and allowHttp alone.
OtherKey == Str("sk_live_abcdef", 14)
ThirdKey == Str("sk_live_uvwxyz", 14)
UrlNumber == [t |-> "number", url |-> <<>>]

Candidates ==
  {EmptyCfg,
   Cfg(GoodUrl, GoodKey, BoolAbsent, Absent, Absent, Absent),
   Cfg(GoodUrl, OtherKey, BoolAbsent, Absent, Absent, Absent),
   Cfg(GoodUrl, ThirdKey, BoolAbsent, Absent, Absent, Absent),
   Cfg(UrlAbsent, GoodKey, BoolAbsent, Absent, Absent, Absent),
   Cfg(UrlAbsent, JsNull, BoolAbsent, Absent, Absent, Absent),
   Cfg(UrlNumber, Absent, BoolAbsent, Absent, Absent, Absent),
   Cfg(UrlAbsent, Absent, "true", Absent, Absent, Absent)}

\* null as rawConfig.
RawNull == [t |-> "null", own |-> EmptyCfg, pluginConfig |-> EmptyCfg, entries |-> EmptyCfg]

\* The rawConfig values with every combination of objects at the three
\* places, and the values that are no object.
ScopedConfigs ==
  {RawObject(own, pluginConfig, entries) :
     own \in Candidates, pluginConfig \in Candidates, entries \in Candidates}
  \cup {RawOther, RawNull}

IdleResolver ==
  /\ rpc = "none"
  /\ rRaw = RawOther
  /\ rResult = NoResolve

InitResolve ==
  /\ rpc = "raw"
  /\ rRaw \in RawConfigs
  /\ rResult = NoResolve

\* resolvePluginConfig(rawConfig) is called.
Resolve ==
  /\ rpc = "raw"
  /\ rpc' = "resolved"
  /\ rResult' = resolvePluginConfig(rRaw)
  /\ UNCHANGED rRaw

\* ------------------------------------------------------------------ tools

\* The errors thrown before any call of the client.
ZodError(issues) == [name |-> "ZodError", issues |-> issues]
PlainError(message) == [name |-> "Error", message |-> message]

\* error.message of an error that is no DatagranApiError (an error caught
\* from fetch is known by its name only).
MessageOf(error) == IF "message" \in DOMAIN error THEN error.message ELSE error.name

\* A ToolResult: the text of content[0] (its pieces), and structuredContent
\* (its keys, and the values of the keys it has).  settled tells whether the
\* promise of execute resolved with the result or rejected.
ToolResult(settled, text, keys, err, status, bodyv, payload) ==
  [settled |-> settled, text |-> text, keys |-> keys, success |-> FALSE, error |-> err,
   status |-> status, body |-> bodyv, payload |-> payload]

NoToolResult == ToolResult("pending", <<>>, {}, "", 0, NoPayload, NoPayload)

\* success(text, structuredContent) with the payload of the remote.
success(text, payload) == ToolResult("returned", text, {"payload"}, "", 0, NoPayload, payload)

\* normalizeError that passes on what is neither a ZodError nor a
\* DatagranApiError (fault variant).
normalizeErrorKnownOnly(error) ==
  CASE error.name = "ZodError" ->
         ToolResult("returned", <<"Invalid input: ", error.issues>>, {"success", "error", "details"},
                    "validation_error", 0, NoPayload, NoPayload)
    [] error.name = "DatagranApiError" ->
         ToolResult("returned", <<"Datagran API error (", error.status, "): ", error.message>>,
                    {"success", "status", "error", "body"}, error.message, error.status, error.body, NoPayload)
    [] OTHER -> ToolResult("rejected", <<>>, {}, "", 0, NoPayload, NoPayload)

\* normalizeError
normalizeError(error) ==
  CASE error.name = "ZodError" ->
         ToolResult("returned", <<"Invalid input: ", error.issues>>, {"success", "error", "details"},
                    "validation_error", 0, NoPayload, NoPayload)
    [] error.name = "DatagranApiError" ->
         ToolResult("returned", <<"Datagran API error (", error.status, "): ", error.message>>,
                    {"success", "status", "error", "body"}, error.message, error.status, error.body, NoPayload)
    [] error.name \in {"Error", "TypeError", "AbortError"} ->
         ToolResult("returned", <<"Unexpected error: ", MessageOf(error)>>, {"success", "error"},
                    MessageOf(error), 0, NoPayload, NoPayload)
    [] OTHER ->
         ToolResult("returned", <<"Unexpected error: unknown">>, {"success", "error"},
                    "unknown_error", 0, NoPayload, NoPayload)

\* asString(connection.connection_id) ?? undefined
ConnectionIdOf(payload) ==
  IF payload.type = "object" /\ payload.json = "{\"connection_id\":\"conn_1\"}" THEN Str("conn_1", 6) ELSE Absent

\* What each tool hands to the client: the validated input (connect,
\* ingest), the input with the defaults of the configuration (query), and
\* the request of the connection made on behalf of ingest.
QueryRequest(input, config) ==
  [input EXCEPT !["mindState"] = IF @ = Absent THEN Str(config.mindState, 4) ELSE @,
                !["maxTokens"] = IF @ = Absent THEN Num(config.maxTokens * 1000) ELSE @,
                !["temperature"] = IF @ = Absent THEN Num(config.temperature) ELSE @]

AutoConnectRequest(input) ==
  [k \in CamelKeys |-> IF k \in {"endUserExternalId", "email"} THEN input[k] ELSE Absent]

\* The test without its !connectionId half (fault variant).
NeedsAutoConnectAlways(kind, input) ==
  kind = "ingest" /\ Truthy(input["endUserExternalId"])

NeedsAutoConnect(kind, input) ==
  kind = "ingest" /\ ~Truthy(input["connectionId"]) /\ Truthy(input["endUserExternalId"])

VARIABLES
  tpc,      \* where execute is: "called", "connecting" (awaiting the
            \* connection made for ingest), "calling", "done"
  tCall,    \* the call of the client execute is awaiting
  tResult   \* the ToolResult

toolVars == <<tpc, tCall, tResult>>

IdleTool ==
  /\ tpc = "none"
  /\ tCall = "c1"
  /\ tResult = NoToolResult

\* The catch branch of execute before any await.
Reject(error) ==
  /\ tpc' = "done"
  /\ tResult' = normalizeError(error)
  /\ UNCHANGED <<clientVars, tCall>>

\* new DatagranClient(config), and the first call of the client.
Start(input, config) ==
  /\ retries' = config.retries
  /\ baseUrl' = config.baseUrl
  /\ apiKey' = config.apiKey
  /\ UNCHANGED <<remote, callers>>
  /\ IF NeedsAutoConnect(vKind, input)
     THEN /\ request("c1", "connect", Body("connect", AutoConnectRequest(input)))
          /\ tpc' = "connecting"
     ELSE /\ request("c1", vKind, Body(vKind, IF vKind = "query" THEN QueryRequest(input, config) ELSE input))
          /\ tpc' = "calling"
  /\ UNCHANGED <<tCall, tResult>>

\* execute without the parse of params (fault variant).
ExecuteUnparsed ==
  /\ tpc = "called"
  /\ LET resolved == resolvePluginConfig(rRaw)
     IN /\ vpc' = "parsed"
        /\ vResult' = SchemaParse(vKind, vInput)
        /\ rpc' = "resolved"
        /\ rResult' = resolved
        /\ IF ~resolved.ok
           THEN Reject(IF resolved.error = "ZodError"
                       THEN ZodError(PluginConfigSchema(extractScopedConfig(rRaw)))
                       ELSE PlainError(resolved.error))
           ELSE Start(Stripped(vKind, vInput), resolved.config)
  /\ UNCHANGED <<vKind, vInput, vBody, rRaw>>

\* execute(_id, params) up to its first await: parse the params, resolve
\* the configuration, build the client and make the first call; or return
\* the normalized error.
Execute ==
  /\ tpc = "called"
  /\ LET parsed == SchemaParse(vKind, vInput)
         resolved == resolvePluginConfig(rRaw)
     IN /\ vpc' = "parsed"
        /\ vResult' = parsed
        /\ IF ~parsed.ok
           THEN /\ Reject(ZodError(parsed.issues))
                /\ UNCHANGED <<rpc, rResult>>
           ELSE /\ rpc' = "resolved"
                /\ rResult' = resolved
                /\ IF ~resolved.ok
                   THEN Reject(IF resolved.error = "ZodError"
                               THEN ZodError(PluginConfigSchema(extractScopedConfig(rRaw)))
                               ELSE PlainError(resolved.error))
                   ELSE Start(parsed.value, resolved.config)
  /\ UNCHANGED <<vKind, vInput, vBody, rRaw>>

\* The connection made for ingest is there: ingestText is called with its
\* connection_id.
AutoConnected ==
  /\ tpc = "connecting"
  /\ pc["c1"] = "returned"
  /\ UNCHANGED <<retries, baseUrl, apiKey, remote, callers>>
  /\ request("c2", "ingest",
             Body("ingest", [vResult.value EXCEPT !["connectionId"] = ConnectionIdOf(result["c1"])]))
  /\ tpc' = "calling"
  /\ tCall' = "c2"
  /\ UNCHANGED <<tResult, validatorVars, resolverVars>>

\* The awaited call returned its payload: execute returns success(...).
CallReturns ==
  /\ tpc = "calling"
  /\ pc[tCall] = "returned"
  /\ tpc' = "done"
  /\ tResult' = success(<<CASE vKind = "connect" -> "connection_id: "
                            [] vKind = "ingest" -> "stored_as: "
                            [] vKind = "query" -> "answer">>, result[tCall])
  /\ UNCHANGED <<clientVars, tCall, validatorVars, resolverVars>>

\* The awaited call threw: the catch branch of execute.
CallFails ==
  /\ tpc \in {"connecting", "calling"}
  /\ pc[tCall] = "thrown"
  /\ tpc' = "done"
  /\ tResult' = normalizeError(raised[tCall])
  /\ UNCHANGED <<clientVars, tCall, validatorVars, resolverVars>>

\* The params and the api.config explored for the tools.
ToolInputs(kind) ==
  {in \in Inputs(kind) :
     /\ \A k \in SnakeKeys : in[k] = Absent
     /\ in["name"] \in {Absent, Str("Alias Test", 10)}
     /\ in["type"] = Absent
     /\ in["metadata"] = Absent
     /\ in["email"] \in {Absent, Str("dev@datagran.com", 16)}
     /\ in["connectionId"] \in {Absent, Str("11111111-1111-4111-8111-111111111111", 36)}
     /\ in["mindState"] = Absent
     /\ in["providers"] = Absent
     /\ in["include"] = Absent
     /\ in["maxTokens"] \in {Absent, Num(321000)}
     /\ in["temperature"] = Absent}

ToolConfigs ==
  {RawObject(Cfg(UrlStr(u), k, BoolAbsent, Absent, Absent, r), EmptyCfg, EmptyCfg) :
     u \in {<<"https", "://", "host">>, <<"http", "://", "host">>, <<"https", "://", "host", "/", "intelligence", "/">>},
     k \in {Absent, GoodKey},
     r \in {Num(0), Num(1000)}}

ToolAnswers ==
  [statuses |-> {200, 404, 503}, texts |-> {"{\"connection_id\":\"conn_1\"}", "<html>Bad Gateway</html>"}]

\* ------------------------------------------------------------ specifications

vars == <<clientVars, validatorVars, resolverVars, toolVars>>

IdleClient ==
  /\ InitClient
  /\ retries = MaxRetries
  /\ callers = {}

\* The remote client: one call of connect, ingest or query.
Init ==
  /\ InitClient
  /\ callers = {"c1"}
  /\ IdleValidator
  /\ IdleResolver
  /\ IdleTool

Next == NextClient /\ UNCHANGED <<validatorVars, resolverVars, toolVars>>

Spec == Init /\ [][Next]_vars

\* The validators: one parse of one input.
InitV == IdleClient /\ InitValidate /\ IdleResolver /\ IdleTool

NextV ==
  \/ parseConnectInput /\ UNCHANGED <<clientVars, resolverVars, toolVars>>
  \/ parseIngestInput /\ UNCHANGED <<clientVars, resolverVars, toolVars>>
  \/ parseQueryInput /\ UNCHANGED <<clientVars, resolverVars, toolVars>>
  \/ createMemoryConnection /\ UNCHANGED <<clientVars, resolverVars, toolVars>>
  \/ ingestText /\ UNCHANGED <<clientVars, resolverVars, toolVars>>
  \/ queryBrain /\ UNCHANGED <<clientVars, resolverVars, toolVars>>

SpecValidate == InitV /\ [][NextV]_vars

\* Two calls of one client, in any interleaving (one after the other
\* included), against a remote that answers 200, 404 or 503.
FewAnswers == [statuses |-> {200, 404, 503}, texts |-> {"{\"error\":\"No brain found\"}"}]

InitCalls ==
  /\ retries \in {0, 1}
  /\ baseUrl \in {TestBaseUrl, TestBaseUrl \o <<"/", "v1">>}
  /\ apiKey = TestApiKey
  /\ remote = FewAnswers
  /\ callers = Calls
  /\ IdleCalls
  /\ IdleValidator
  /\ IdleResolver
  /\ IdleTool

SpecCalls == InitCalls /\ [][Next]_vars

\* The largest http.retries the configuration schema admits.
MaxConfigRetries == 5

\* One call with any http.retries of the schema, against a remote that
\* answers 200 or 503.
TwoAnswers == [statuses |-> {200, 503}, texts |-> {"{\"success\":true}"}]

InitBackoff ==
  /\ retries \in 0..MaxConfigRetries
  /\ baseUrl = TestBaseUrl
  /\ apiKey = TestApiKey
  /\ remote = TwoAnswers
  /\ callers = {"c1"}
  /\ IdleCalls
  /\ IdleValidator
  /\ IdleResolver
  /\ IdleTool

SpecBackoff == InitBackoff /\ [][Next]_vars

\* One call, with the timers of the runtime firing: a pending setTimeout
\* callback (the attempt's abort, the end of a sleep) is eventually run.
\* Nothing is assumed of the remote.
InitLive ==
  /\ retries \in {0, 1}
  /\ baseUrl = TestBaseUrl
  /\ apiKey = TestApiKey
  /\ remote = FewAnswers
  /\ callers = {"c1"}
  /\ IdleCalls
  /\ IdleValidator
  /\ IdleResolver
  /\ IdleTool

TimersFire ==
  \A c \in Calls :
    /\ WF_vars(TimerFires(c) /\ UNCHANGED <<validatorVars, resolverVars, toolVars>>)
    /\ WF_vars(SleepResolves(c) /\ UNCHANGED <<validatorVars, resolverVars, toolVars>>)

SpecLive == InitLive /\ [][Next]_vars /\ TimersFire

\* A remote that answers 200, 404 or 503 with bodies of every shape
\* extractErrorMessage tells apart.
ErrorAnswers ==
  [statuses |-> {200, 404, 503},
   texts |-> {"", "   ", "<html>Bad Gateway</html>", "{\"success\":true}", "{\"error\":\"No brain found\"}",
              "{\"error\":\"No brain found\",\"message\":\"Try later\"}", "{\"message\":\"Try later\"}",
              "{\"error\":\"\",\"message\":\"Try later\"}", "{\"error\":\"   \",\"message\":\"Try later\"}",
              "{\"error\":\" No brain found \"}", "{\"error\":{\"code\":7},\"message\":\"Try later\"}"}]

InitMessages ==
  /\ retries \in {0, 1}
  /\ baseUrl = TestBaseUrl
  /\ apiKey = TestApiKey
  /\ remote = ErrorAnswers
  /\ callers = {"c1"}
  /\ IdleCalls
  /\ IdleValidator
  /\ IdleResolver
  /\ IdleTool

SpecMessages == InitMessages /\ [][Next]_vars

\* The configuration resolver: one resolve of one rawConfig.
InitR == IdleClient /\ IdleValidator /\ InitResolve /\ IdleTool

NextR == Resolve /\ UNCHANGED <<clientVars, validatorVars, toolVars>>

SpecResolve == InitR /\ [][NextR]_vars

\* The resolver over the nested shapes of rawConfig.
InitScoped ==
  /\ IdleClient
  /\ IdleValidator
  /\ rpc = "raw"
  /\ rRaw \in ScopedConfigs
  /\ rResult = NoResolve
  /\ IdleTool

SpecScoped == InitScoped /\ [][NextR]_vars

\* The tools: one execute of one tool, with the client it builds.
InitTool ==
  /\ retries = 0
  /\ baseUrl = <<>>
  /\ apiKey = ""
  /\ remote = ToolAnswers
  /\ callers = {}
  /\ IdleCalls
  /\ vpc = "input"
  /\ vKind \in Ops
  /\ vInput \in ToolInputs(vKind)
  /\ vResult = NoResult
  /\ vBody = NoBody
  /\ rpc = "raw"
  /\ rRaw \in ToolConfigs
  /\ rResult = NoResolve
  /\ tpc = "called"
  /\ tCall = "c1"
  /\ tResult = NoToolResult

NextTool ==
  \/ Execute
  \/ AutoConnected
  \/ CallReturns
  \/ CallFails
  \/ \E c \in Calls :
       /\ \/ FetchResolves(c)
          \/ FetchRejects(c)
          \/ TimerFires(c)
          \/ BodyRejects(c)
          \/ BodyResolves(c)
          \/ SleepResolves(c)
       /\ UNCHANGED <<validatorVars, resolverVars, toolVars>>

SpecTool == InitTool /\ [][NextTool]_vars

\* ------------------------------------------------------------------ claims

\* The status classes as the specification words them.
Is2xx(status) == 200 <= status /\ status <= 299
IsRetryableClass(status) == status = 408 \/ status = 429 \/ (500 <= status /\ status <= 599)
IsTerminalClass(status) == ~Is2xx(status) /\ ~IsRetryableClass(status)

\* How attempt i of call c ended.
Ended(c, i) == log[c][i]
Attempts(c) == 1..Len(log[c])
IsTransportFailure(e) == e.kind \in {"TypeError", "AbortError"}
IsRetryableFailure(e) == (e.kind = "http" /\ IsRetryableClass(e.status)) \/ IsTransportFailure(e)

\* The DatagranApiError the response of an attempt produces.
ApiErrorOf(e) ==
  DatagranApiError(extractErrorMessage(parseResponseBody(e.text), e.status), e.status,
                   parseResponseBody(e.text), IsRetryableClass(e.status))

\* C1: a response with a status that is neither 2xx nor 408, 429 or 5xx ends
\* the call at once with a DatagranApiError: it is the last attempt, no
\* request follows it and no sleep follows it, whatever attempts remain.
C1_TerminalStatusRaisesAtOnce ==
  \A c \in Calls : \A i \in Attempts(c) :
    (Ended(c, i).kind = "http" /\ IsTerminalClass(Ended(c, i).status)) =>
      /\ i = Len(log[c])
      /\ pc[c] = "thrown"
      /\ raised[c].name = "DatagranApiError"
      /\ raised[c].status = Ended(c, i).status
      /\ sent[c] = i
      /\ Len(slept[c]) = i - 1

\* retries = 2 and a 404 on the first attempt: the call is over after 1 request.
C1_Witness ==
  /\ retries = 2
  /\ pc["c1"] = "thrown"
  /\ Len(log["c1"]) = 1
  /\ log["c1"][1].kind = "http" /\ log["c1"][1].status = 404
  /\ sent["c1"] = 1 /\ slept["c1"] = <<>>

\* C2: for k <= retries, after k attempts that each ended with a retryable
\* status the call has not given up, and when attempt k+1 then gets a 2xx
\* the call returns the payload of attempt k+1 after exactly k+1 requests.
C2_SuccessAfterRetryableStatuses ==
  \A c \in Calls : \A k \in 0..retries :
    (/\ Len(log[c]) >= k
     /\ \A i \in 1..k : Ended(c, i).kind = "http" /\ IsRetryableClass(Ended(c, i).status)) =>
      /\ Len(log[c]) = k /\ k >= 1 => pc[c] \in {"sleeping", "fetching", "reading"}
      /\ (/\ Len(log[c]) >= k + 1
          /\ Ended(c, k + 1).kind = "http"
          /\ Is2xx(Ended(c, k + 1).status)) =>
           /\ pc[c] = "returned"
           /\ result[c] = parseResponseBody(Ended(c, k + 1).text)
           /\ sent[c] = k + 1
           /\ Len(log[c]) = k + 1

\* retries = 2 and statuses 500, 500, 200: success after exactly 3 requests.
C2_Witness ==
  /\ retries = 2
  /\ pc["c1"] = "returned"
  /\ Len(log["c1"]) = 3
  /\ log["c1"][1].status = 500 /\ log["c1"][2].status = 500 /\ log["c1"][3].status = 200
  /\ sent["c1"] = 3

\* C3: a call sends at least 1 and at most retries + 1 requests, has at most
\* one exchange in flight, and sends request number n+1 only as the step
\* that ends the sleep following the end of attempt n.
C3_BoundedSequentialAttempts ==
  /\ [](\A c \in Calls :
          /\ sent[c] <= retries + 1
          /\ (pc[c] # "idle") => sent[c] >= 1
          /\ inflight[c] <= 1
          /\ pc[c] \in {"fetching", "reading"} =>
               /\ inflight[c] = 1
               /\ Len(log[c]) = sent[c] - 1
               /\ Len(slept[c]) = sent[c] - 1)
  /\ [][\A c \in Calls :
          (sent'[c] # sent[c]) =>
            /\ sent'[c] = sent[c] + 1
            /\ inflight[c] = 0
            /\ sent[c] >= 1 => (pc[c] = "sleeping" /\ Len(slept[c]) = sent[c] /\ Len(log[c]) = sent[c])]_vars

\* A call that used all of its retries + 1 requests, with retries = 2.
C3_Witness ==
  /\ retries = 2
  /\ pc["c1"] = "thrown"
  /\ sent["c1"] = 3
  /\ Len(slept["c1"]) = 2

\* C4: when an attempt ends with a connection error or with the abort of its
\* timer and attempts remain, the call does not raise: it sleeps, and the
\* step that ends the sleep sends the next request.
C4_TransportFailureRetried ==
  /\ [](\A c \in Calls : \A i \in Attempts(c) :
          (IsTransportFailure(Ended(c, i)) /\ i <= retries) =>
            /\ Len(slept[c]) >= i
            /\ \/ pc[c] = "sleeping" /\ sent[c] = i /\ lastError[c].name = Ended(c, i).kind
               \/ sent[c] >= i + 1)
  /\ [][\A c \in Calls :
          (pc[c] = "sleeping" /\ pc'[c] # "sleeping" /\ IsTransportFailure(Ended(c, Len(log[c])))) =>
            (pc'[c] = "fetching" /\ sent'[c] = sent[c] + 1)]_vars

\* The timer of the first attempt aborted it, the call slept and sent a second request.
C4_Witness ==
  /\ Len(log["c1"]) >= 1
  /\ log["c1"][1].kind = "AbortError"
  /\ Len(slept["c1"]) = 1
  /\ sent["c1"] = 2

\* C5: when all retries + 1 attempts ended with retryable failures (retryable
\* statuses and transport failures in any mix), the call raises the error of
\* the last attempt: its DatagranApiError if it got a response, else the
\* error fetch threw.
C5_ExhaustedRaisesLastError ==
  \A c \in Calls :
    (/\ Len(log[c]) = retries + 1
     /\ \A i \in Attempts(c) : IsRetryableFailure(Ended(c, i))) =>
      /\ pc[c] = "thrown"
      /\ raised[c] = IF Ended(c, retries + 1).kind = "http"
                     THEN ApiErrorOf(Ended(c, retries + 1))
                     ELSE ThrownError(Ended(c, retries + 1).kind)

\* A 503 and then a connection error with retries = 1: the TypeError is raised.
C5_Witness ==
  /\ retries = 1
  /\ pc["c1"] = "thrown"
  /\ Len(log["c1"]) = 2
  /\ log["c1"][1].kind = "http" /\ log["c1"][1].status = 503
  /\ log["c1"][2].kind = "TypeError"
  /\ raised["c1"].name = "TypeError"

\* C6: a 2xx response ends the call: it is the last attempt, the call returns
\* its parsed payload, no request follows, and no error is raised (the error
\* of an earlier attempt stays unraised).
C6_SuccessIsTerminal ==
  \A c \in Calls :
    /\ \A i \in Attempts(c) :
         (Ended(c, i).kind = "http" /\ Is2xx(Ended(c, i).status)) =>
           /\ i = Len(log[c])
           /\ pc[c] = "returned"
           /\ result[c] = parseResponseBody(Ended(c, i).text)
           /\ sent[c] = i
    /\ pc[c] = "returned" => raised[c] = Null

\* A call that failed once (an error was recorded) and then got a 299.
C6_Witness ==
  /\ pc["c1"] = "returned"
  /\ Len(log["c1"]) = 2
  /\ log["c1"][2].status = 299
  /\ lastError["c1"] # Null
  /\ raised["c1"] = Null

C8_ApiErrorCarriesResponse ==
  \A c \in Calls :
    (pc[c] = "thrown" /\ raised[c].name = "DatagranApiError") =>
      LET e == Ended(c, Len(log[c]))
      IN /\ Len(log[c]) >= 1
         /\ e.kind = "http" /\ ~Is2xx(e.status)
         /\ raised[c].status = e.status
         /\ raised[c].body = parseResponseBody(e.text)
         /\ raised[c].retryable = IsRetryableClass(e.status)
         /\ Len(log[c]) <= retries => raised[c].retryable = FALSE

\* A 429 on the last attempt allowed: raised with retryable = TRUE.
C8_Witness ==
  /\ retries = 1
  /\ pc["c1"] = "thrown"
  /\ Len(log["c1"]) = 2
  /\ raised["c1"].name = "DatagranApiError"
  /\ raised["c1"].status = 429
  /\ raised["c1"].retryable

\* The params with every snake_case key respelled in camelCase.
Camelized(in) ==
  [k \in DOMAIN in |->
     IF k \in SnakeKeys THEN Absent
     ELSE IF SnakeOf(k) # k /\ in[SnakeOf(k)] # Absent THEN in[SnakeOf(k)]
     ELSE in[k]]

\* Some field is spelled in snake_case, and none is given in both spellings.
SnakeSpelled(in) ==
  /\ \E k \in SnakeKeys : in[k] # Absent
  /\ \A k \in CamelKeys : SnakeOf(k) # k => (in[k] = Absent \/ in[SnakeOf(k)] = Absent)

\* C9: params that spell fields in snake_case are accepted whenever the same
\* params in camelCase are, and give the same validated value (the fields
\* under their camelCase names).
C9_SnakeCaseAliasesAccepted ==
  (/\ vpc = "parsed"
   /\ SnakeSpelled(vInput)
   /\ SchemaParse(vKind, Camelized(vInput)).ok) =>
    /\ vResult.ok
    /\ vResult.value = SchemaParse(vKind, Camelized(vInput)).value

\* The field checks pass: the params are valid but for the cross-field rule.
OtherwiseValid(kind, in) == FieldIssues(kind, in) = {}

HasConnectionOrUser(in) == in["connectionId"] # Absent \/ in["endUserExternalId"] # Absent

\* C10: ingest or query params that pass every field check fail with exactly
\* one issue, on the input as a whole, when they have neither connectionId
\* nor endUserExternalId, and pass when they have one of them.
C10_MissingBothIsOneError ==
  (/\ vpc = "parsed"
   /\ vKind \in {"ingest", "query"}
   /\ OtherwiseValid(vKind, vInput)) =>
    IF HasConnectionOrUser(vInput)
    THEN vResult.ok /\ vResult.issues = {}
    ELSE /\ ~vResult.ok
         /\ Cardinality(vResult.issues) = 1
         /\ \A i \in vResult.issues : i.path = "" /\ i.code = "custom"

\* Valid ingest params with neither of the two were refused with one issue.
C10_Witness ==
  /\ vpc = "parsed"
  /\ vKind = "ingest"
  /\ OtherwiseValid(vKind, vInput)
  /\ ~HasConnectionOrUser(vInput)
  /\ \A k \in SnakeKeys : vInput[k] = Absent
  /\ ~vResult.ok
  /\ Cardinality(vResult.issues) = 1

\* The configuration the schema accepted, and the URL it gave.
Accepted == PluginConfigSchema(extractScopedConfig(rRaw)) = {}
GivenUrl == extractScopedConfig(rRaw).baseUrl.url
GivenAllowHttp == extractScopedConfig(rRaw).allowHttp = "true"

\* C11: a configuration the schema accepts whose URL has a scheme other than
\* https is refused when allowHttp is false, and is resolved with its scheme
\* kept when allowHttp is true.
C11_NonHttpsNeedsAllowHttp ==
  (rpc = "resolved" /\ Accepted /\ GivenUrl[1] # "https") =>
    IF GivenAllowHttp
    THEN rResult.ok /\ rResult.config.baseUrl[1] = GivenUrl[1]
    ELSE ~rResult.ok

\* C12: the baseUrl of a resolved configuration ends neither with "/" nor
\* with "/intelligence".
C12_NoTrailingSlashNoIntelligence ==
  (rpc = "resolved" /\ rResult.ok) =>
    LET b == rResult.config.baseUrl
    IN /\ b[Len(b)] # "/"
       /\ ~(Len(b) >= 2 /\ b[Len(b) - 1] = "/" /\ b[Len(b)] = "intelligence")

\* C13: the resolved baseUrl is the origin when the path is empty, "/" or
\* "/intelligence" (trailing slashes aside), else origin + path without its
\* trailing slashes; and resolving the resolved baseUrl again gives it back.
C13_NormalizationIsIdempotent ==
  (rpc = "resolved" /\ rResult.ok) =>
    LET u == UrlParse(GivenUrl)
        path == stripTrailingSlashes(u.pathname)
        b == rResult.config.baseUrl
    IN /\ b = IF path \in {<<>>, <<"/">>, <<"/", "intelligence">>} THEN u.origin ELSE u.origin \o path
       /\ IsUrl(b)
       /\ stripTrailingSlashes(normalizeDatagranBaseUrl(b)) = b

\* The optional keys of the bodies.
OptionalKeys(kind) == BodyKeys(kind) \ PlainKeys

\* C15: the body holds an optional key exactly when the validated request
\* has the field, with the request's value; no value is null; the required
\* keys are always there.
C15_BodyHasExactlyThePresentFields ==
  vpc = "built" =>
    /\ \A key \in OptionalKeys(vKind) : (key \in DOMAIN vBody) <=> (vResult.value[FieldOf(key)] # Absent)
    /\ \A key \in DOMAIN vBody : vBody[key] = vResult.value[FieldOf(key)] /\ vBody[key] # JsNull
    /\ BodyKeys(vKind) \cap PlainKeys \subseteq DOMAIN vBody

\* C14: every fetch() of a call is a POST to baseUrl + the fixed path of
\* its operation, with x-api-key = apiKey and content-type =
\* application/json, and every one carries what the first carried.
C14_EveryAttemptSendsTheSameRequest ==
  \A c \in Calls : \A i \in 1..Len(requests[c]) :
    LET r == requests[c][i]
    IN /\ r.method = "POST"
       /\ r.url = baseUrl \o <<CASE op[c] = "connect" -> "/api/connections/memory"
                                 [] op[c] = "ingest" -> "/api/context/compile"
                                 [] op[c] = "query" -> "/api/context/brain">>
       /\ r.xApiKey = apiKey
       /\ r.contentType = "application/json"
       /\ r = requests[c][1]
       /\ r.body = body[c]

C14_Witness ==
  \E c \in Calls : Len(requests[c]) = 2 /\ pc[c] = "returned" /\ Len(baseUrl) > 3

\* Everything one call owns.
PerCall(c) ==
  <<pc[c], op[c], body[c], requests[c], attempt[c], lastError[c], timer[c], inflight[c], sent[c],
    log[c], resp[c], result[c], raised[c], slept[c]>>

Finished(c) == pc[c] \in {"returned", "thrown"}

\* C18: a step of one call changes nothing of the other call and nothing of
\* the client; a call that has sent k requests is at attempt k - 1, so it
\* began at attempt 0 whatever the other call did; and two finished calls
\* with the same operation, body and answers sent the same requests, slept
\* the same and ended the same.
C18_CallsAreIndependent ==
  /\ [](\A c \in Calls : pc[c] # "idle" => Len(requests[c]) = attempt[c] + 1)
  /\ [](\A c, d \in Calls :
          (Finished(c) /\ Finished(d) /\ op[c] = op[d] /\ body[c] = body[d] /\ log[c] = log[d]) =>
            /\ requests[c] = requests[d]
            /\ slept[c] = slept[d]
            /\ pc[c] = pc[d]
            /\ result[c] = result[d]
            /\ raised[c] = raised[d])
  /\ [][/\ <<retries, baseUrl, apiKey>>' = <<retries, baseUrl, apiKey>>
        /\ \A c, d \in Calls : (c # d /\ PerCall(c)' # PerCall(c)) => PerCall(d)' = PerCall(d)]_vars

C18_Witness ==
  /\ pc["c1"] = "thrown" /\ Len(requests["c1"]) = 2
  /\ pc["c2"] = "thrown" /\ Len(requests["c2"]) = 2
  /\ op["c1"] = op["c2"]
  /\ log["c1"] = log["c2"]

\* C19: the sleeps of a call are 250, 500, 1000, 2000, 2000 ms in this
\* order, the one after failed attempt n being min(2000, 250 * 2^n); each
\* ended attempt but the last of a finished call is followed by one sleep:
\* none before the first attempt, none after the attempt that ends the call.
C19_BackoffBetweenAttemptsOnly ==
  \A c \in Calls :
    /\ slept[c] = SubSeq(<<250, 500, 1000, 2000, 2000>>, 1, Len(slept[c]))
    /\ \A i \in 1..Len(slept[c]) :
         slept[c][i] = IF 250 * 2^(i - 1) < 2000 THEN 250 * 2^(i - 1) ELSE 2000
    /\ pc[c] = "idle" => slept[c] = <<>>
    /\ pc[c] \in {"fetching", "reading"} => Len(slept[c]) = Len(log[c]) /\ sent[c] = Len(slept[c]) + 1
    /\ pc[c] = "sleeping" => Len(slept[c]) = Len(log[c]) /\ sent[c] = Len(slept[c])
    /\ Finished(c) => Len(slept[c]) = Len(log[c]) - 1 /\ sent[c] = Len(log[c])

C19_Witness ==
  pc["c1"] = "thrown" /\ slept["c1"] = <<250, 500, 1000, 2000, 2000>>

\* C20: with the timers firing, a call that was made returns or throws.
C20_EveryCallTerminates ==
  \A c \in Calls : (pc[c] # "idle") ~> Finished(c)

\* The tool was handed params its schema refuses, or a configuration that
\* does not resolve.
InvalidInput == ~SchemaParse(vKind, vInput).ok
InvalidConfig == ~resolvePluginConfig(rRaw).ok

\* C16: when the params or the configuration are refused, execute ends at
\* once with an error result and no call of the client has sent anything,
\* then or later.
C16_NoRequestWhenInvalid ==
  (tpc \in {"connecting", "calling", "done"} /\ (InvalidInput \/ InvalidConfig)) =>
    /\ tpc = "done"
    /\ "success" \in tResult.keys /\ ~tResult.success
    /\ \A c \in Calls : pc[c] = "idle" /\ requests[c] = <<>> /\ sent[c] = 0 /\ slept[c] = <<>>

C16_Witness ==
  /\ tpc = "done"
  /\ ~InvalidInput
  /\ rResult.error = "Insecure baseUrl blocked"
  /\ \A c \in Calls : requests[c] = <<>>

\* The errors execute can meet.
ToolFailed == InvalidInput \/ InvalidConfig \/ pc[tCall] = "thrown"

\* C17: execute never rejects; when validation, the configuration or the
\* client failed, its result has a text and a structured payload with
\* success false, and for a DatagranApiError that payload holds the error's
\* status, message and body.
C17_ErrorsBecomeResults ==
  /\ tResult.settled # "rejected"
  /\ tpc = "done" =>
       /\ tResult.settled = "returned"
       /\ ToolFailed =>
            /\ tResult.text # <<>>
            /\ "success" \in tResult.keys /\ ~tResult.success
       /\ (pc[tCall] = "thrown" /\ raised[tCall].name = "DatagranApiError") =>
            /\ {"status", "error", "body"} \subseteq tResult.keys
            /\ tResult.status = raised[tCall].status
            /\ tResult.error = raised[tCall].message
            /\ tResult.body = raised[tCall].body

C17_Witness ==
  /\ tpc = "done"
  /\ pc[tCall] = "thrown"
  /\ raised[tCall].name \in {"TypeError", "AbortError"}
  /\ Len(requests[tCall]) = 2
  /\ tResult.error = raised[tCall].name

\* The requests sent so far to a path, by any call of the client.
SentTo(path) == \E c \in Calls : \E i \in 1..Len(requests[c]) : requests[c][i].url[Len(requests[c][i].url)] = path
ConnectSent == SentTo("/api/connections/memory")
IngestSent == SentTo("/api/context/compile")
ConnectReturned == \E c \in Calls : op[c] = "connect" /\ pc[c] = "returned"
ConnectRaised == \E c \in Calls : op[c] = "connect" /\ pc[c] = "thrown"

\* The validated input of the ingest tool.
IngestOf(hasConnectionId) ==
  /\ vKind = "ingest"
  /\ vpc = "parsed"
  /\ vResult.ok
  /\ (vResult.value["connectionId"] # Absent) = hasConnectionId

\* C21: in the ingest tool, without a connectionId (and so with an
\* endUserExternalId) no ingest request is sent before a connect request
\* was sent and its call returned, and none at all once that call threw;
\* with a connectionId no connect request is sent.
C21_ConnectBeforeIngest ==
  /\ []((IngestOf(FALSE) /\ vResult.value["endUserExternalId"] # Absent) =>
          /\ IngestSent => (ConnectSent /\ ConnectReturned)
          /\ ConnectRaised => ~IngestSent)
  /\ [](IngestOf(TRUE) => ~ConnectSent)
  /\ [][(IngestOf(FALSE) /\ ~IngestSent /\ IngestSent') => (ConnectSent /\ ConnectReturned)]_vars

C21_Witness ==
  /\ IngestOf(FALSE)
  /\ op["c1"] = "connect" /\ pc["c1"] = "returned"
  /\ op["c2"] = "ingest" /\ pc["c2"] = "returned"
  /\ "connection_id" \in DOMAIN body["c2"]
  /\ tpc = "done"

\* The DatagranApiError a call threw, if it threw one.
ThrewApiError(c) == pc[c] = "thrown" /\ raised[c].name = "DatagranApiError"

\* C22 as stated: the message is the body's error field if it is a string
\* that is not empty, else its message field if it is a string that is not
\* empty, else the text of the body if the body is text that is not empty,
\* else the generic message with the status.
C22_MessageByPriority ==
  \A c \in Calls :
    ThrewApiError(c) =>
      LET b == raised[c].body
      IN raised[c].message =
           IF b.type = "object" /\ b.error # Undefined /\ b.error # "" THEN Message(b.error)
           ELSE IF b.type = "object" /\ b.message # Undefined /\ b.message # "" THEN Message(b.message)
           ELSE IF b.type = "string" /\ b.str # "" THEN Message(b.str)
           ELSE Fallback(raised[c].status)

\* Whether something is left of a string once its surrounding blanks are off.
NonBlank(str) == str # Undefined /\ Trim(str) # ""

\* C22, amended: the same order, where a field or a text counts only when
\* it is not blank, and the message is the string without its surrounding
\* blanks.
C22_TrimmedMessageByPriority ==
  \A c \in Calls :
    ThrewApiError(c) =>
      LET b == raised[c].body
      IN raised[c].message =
           IF b.type = "object" /\ NonBlank(b.error) THEN Message(Trim(b.error))
           ELSE IF b.type = "object" /\ NonBlank(b.message) THEN Message(Trim(b.message))
           ELSE IF b.type = "string" /\ NonBlank(b.str) THEN Message(Trim(b.str))
           ELSE Fallback(raised[c].status)

\* A body whose error field is blank: the message field made the message.
C22_Witness ==
  /\ ThrewApiError("c1")
  /\ raised["c1"].body.type = "object"
  /\ raised["c1"].body.error = "   "
  /\ raised["c1"].body.message = "Try later"
  /\ raised["c1"].message = Message("Try later")

\* What resolve gives for a configuration object handed over as it is.
ResolvedAlone(cfg) == resolvePluginConfig(RawObject(cfg, EmptyCfg, EmptyCfg))

\* The object has a baseUrl or an apiKey, of any type.
HasUrlOrKey(cfg) == cfg.baseUrl.t # "undefined" \/ cfg.apiKey.t # "undefined"

\* The object has a baseUrl or an apiKey that is a string.
HasStringUrlOrKey(cfg) == cfg.baseUrl.t = "string" \/ cfg.apiKey.t = "string"

\* C23 as stated: resolve gives what the first of these gives: the raw
\* object if it has baseUrl or apiKey, its pluginConfig if that has baseUrl
\* or apiKey, the object at plugins.entries.<pluginId>.config, else the raw
\* object; a raw value that is no object gives the validation error of {}.
C23_FirstWithUrlOrKeyWins ==
  rpc = "resolved" =>
    IF rRaw.t # "object" THEN rResult = ResolvedAlone(EmptyCfg) /\ rResult.error = "ZodError"
    ELSE rResult = ResolvedAlone(
           IF HasUrlOrKey(rRaw.own) THEN rRaw.own
           ELSE IF HasUrlOrKey(rRaw.pluginConfig) THEN rRaw.pluginConfig
           ELSE IF rRaw.entries # EmptyCfg THEN rRaw.entries
           ELSE rRaw.own)

\* C23, amended: the same order, where the raw object and its pluginConfig
\* match only when their baseUrl or apiKey is a string.
C23_FirstWithStringUrlOrKeyWins ==
  rpc = "resolved" =>
    IF rRaw.t # "object" THEN rResult = ResolvedAlone(EmptyCfg) /\ rResult.error = "ZodError"
    ELSE rResult = ResolvedAlone(
           IF HasStringUrlOrKey(rRaw.own) THEN rRaw.own
           ELSE IF HasStringUrlOrKey(rRaw.pluginConfig) THEN rRaw.pluginConfig
           ELSE IF rRaw.entries # EmptyCfg THEN rRaw.entries
           ELSE rRaw.own)

\* The raw object has an apiKey that is null, and complete configurations at
\* pluginConfig and at plugins.entries: the one at pluginConfig was resolved.
C23_Witness ==
  /\ rpc = "resolved"
  /\ rRaw.t = "object"
  /\ rRaw.own.apiKey = JsNull
  /\ rRaw.pluginConfig.apiKey = OtherKey
  /\ rRaw.entries.apiKey = ThirdKey
  /\ rResult.ok
  /\ rResult.config.apiKey = OtherKey.s

====
